---- MODULE Spec2Model ----
(***************************************************************************)
(* The slot-machine game of src/main.cpp: one SlotMachine object owning a  *)
(* SQLite store (tables players and spin_history), its constructor, the    *)
(* interactive play() loop and the reel generator getSpinResult.           *)
(*                                                                         *)
(* The store outlives the process, so a behaviour is a sequence of         *)
(* processes run one after the other on the same database file.  Every     *)
(* sqlite3 call whose result the code tests may fail: a step of a          *)
(* statement fails when its table is missing (prepare yields no statement  *)
(* and sqlite3_step on it reports an error) or when the environment makes  *)
(* it fail (locked file, read-only file, I/O error), which is an input of  *)
(* the action.                                                             *)
(*                                                                         *)
(* Amounts are C++ doubles.  An amount is modelled as hi * 2^56 + lo with  *)
(* hi in -1..1 and lo a small integer, and every arithmetic result is      *)
(* rounded as IEEE-754 binary64 rounds it (round to nearest, ties to       *)
(* even): values below 2^53 are exact, values in [2^55, 2^56) are          *)
(* multiples of 8 and values in [2^56, 2^57) are multiples of 16.          *)
(***************************************************************************)
EXTENDS Integers, Sequences, FiniteSets, TLC

VARIABLES
    tables,         \* the tables that exist in slot_machine.db
    players,        \* rows of table players, in rowid order
    history,        \* rows of table spin_history, in rowid order
    pc,             \* where the process is: start, identify, fund, loop, exited
    exitCode,       \* exit status of the process once pc = "exited"
    ident,          \* name, age, card read by play()
    playerId,       \* play()'s local playerId
    balance,        \* play()'s local balance
    bets,           \* the bets read by this process, in order
    reported,       \* the text last printed after "New Balance: "
    diag,           \* what the last step printed on the error stream
    prompts,        \* number of prompts this process has printed
    funds,          \* number of times this process ran lines 165-166
    launches,       \* number of processes started so far
    spins,          \* number of spins performed on this store so far
    faults,         \* number of environment failures so far
    createFailed,   \* some addPlayer has failed on this store
    lookupFailed,   \* some getPlayerID step has failed on this store
    resolved,       \* identity -> the id its first successful resolution gave
    playersAtStart, \* number of player rows when this process started
    result,         \* getSpinResult's local result, a 3 x 3 grid
    cell,           \* getSpinResult: number of cells assigned so far
    it              \* getSpinResult: position of the iterator at the last read

storeVars == <<tables, players, history>>
procVars  == <<pc, exitCode, ident, playerId, balance, bets, reported, diag,
               prompts, funds, playersAtStart>>
ghostVars == <<launches, spins, faults, createFailed, lookupFailed, resolved>>
reelVars  == <<result, cell, it>>
vars      == <<storeVars, procVars, ghostVars, reelVars>>

----------------------------------------------------------------------------
(* Bounds of the model *)

MaxSessions == 2
MaxSpins == 2
MaxFaults == 1

----------------------------------------------------------------------------
(* Program constants *)

NotFound == -1
StartBalance == 100
GridSize == 3

SymbolKeys == <<"A", "B", "C", "D">>

PlayersTable == "players"
HistoryTable == "spin_history"

ErrOpen   == "Error opening database."
ErrQuery  == "Error executing query: "
ErrAdd    == "Error adding player."
ErrUpdate == "Error updating balance."
ErrSave   == "Error saving spin history."

----------------------------------------------------------------------------
(* Doubles *)

Amt(h, l) == [hi |-> h, lo |-> l]

Zero == Amt(0, 0)

Abs(x) == IF x < 0 THEN -x ELSE x

Sign(x) == IF x < 0 THEN -1 ELSE 1

\* m rounded to the nearest multiple of q, a tie going to the even quotient
RoundToMultiple(m, q) ==
    LET down == (m \div q) * q
        rem  == m % q
    IN  IF 2 * rem < q THEN down
        ELSE IF 2 * rem > q THEN down + q
        ELSE IF (m \div q) % 2 = 0 THEN down ELSE down + q

\* the double nearest to h * 2^56 + l
DoubleRound(h, l) ==
    IF h = 0 THEN Amt(0, l)
    ELSE LET ulp == IF h * l >= 0 THEN 16 ELSE 8
         IN  Amt(h, Sign(l) * RoundToMultiple(Abs(l), ulp))

DoubleAdd(a, b) == DoubleRound(a.hi + b.hi, a.lo + b.lo)

DoubleSub(a, b) == DoubleRound(a.hi - b.hi, a.lo - b.lo)

DoubleLess(a, b) == a.hi < b.hi \/ (a.hi = b.hi /\ a.lo < b.lo)

\* operator<< of a double at the default precision of 6 significant digits
FormatDouble(a) ==
    IF a.hi = 0 THEN ToString(a.lo)
    ELSE IF a.hi > 0 THEN "7.20576e+16" ELSE "-7.20576e+16"

----------------------------------------------------------------------------
(* Inputs *)

\* the identity triples a user enters
Identities ==
    { [name |-> "Alice", age |-> 30, card |-> "1111"],
      [name |-> "Alice", age |-> 31, card |-> "1111"] }

\* Before the three reads of play(): empty strings, age not yet read.
NoIdentity == [name |-> "", age |-> 0, card |-> ""]

\* the bets a user enters: zero, small, negative, larger than the balance,
\* and 2^56 and -2^56, next to which 100 is below the rounding unit
Bets == { Amt(0, 0), Amt(0, 5), Amt(0, -10), Amt(0, 150), Amt(1, 0), Amt(-1, 0) }

----------------------------------------------------------------------------
(* The store: lines 13-107 *)

\* A prepared statement steps to completion unless its table is missing or
\* the environment fails it.
StepFails(db, table, envFails) == table \notin db \/ envFails

executeQuery(db, table, envFails) ==
    IF envFails THEN db ELSE db \cup {table}

createTables(db, envFails1, envFails2) ==
    executeQuery(executeQuery(db, PlayersTable, envFails1), HistoryTable, envFails2)

Matches(P, name, age, card) ==
    { k \in 1..Len(P) : P[k].name = name /\ P[k].age = age /\ P[k].card = card }

Min(S) == CHOOSE x \in S : \A y \in S : x <= y

getPlayerID(P, db, name, age, card, envFails) ==
    IF StepFails(db, PlayersTable, envFails) \/ Matches(P, name, age, card) = {}
    THEN NotFound
    ELSE P[Min(Matches(P, name, age, card))].id

addPlayer(P, db, name, age, card, envFails) ==
    IF StepFails(db, PlayersTable, envFails) THEN P
    ELSE Append(P, [id |-> Len(P) + 1, name |-> name, age |-> age,
                    card |-> card, balance |-> Zero])

\* updateBalance with the id bound off by one: WHERE id = ? matches the next row
updateBalanceWrongRow(P, db, id, newBalance, envFails) ==
    IF StepFails(db, PlayersTable, envFails) THEN P
    ELSE [k \in 1..Len(P) |->
            IF P[k].id = id + 1 THEN [P[k] EXCEPT !.balance = newBalance] ELSE P[k]]

updateBalance(P, db, id, newBalance, envFails) ==
    IF StepFails(db, PlayersTable, envFails) THEN P
    ELSE [k \in 1..Len(P) |->
            IF P[k].id = id THEN [P[k] EXCEPT !.balance = newBalance] ELSE P[k]]

\* saveSpinHistory with the bet bound to the balance column too
saveSpinHistoryBetAsBalance(Hs, db, id, bet, winnings, newBalance, envFails) ==
    IF StepFails(db, HistoryTable, envFails) THEN Hs
    ELSE Append(Hs, [player_id |-> id, bet |-> bet, winnings |-> winnings,
                     balance |-> bet])

saveSpinHistory(Hs, db, id, bet, winnings, newBalance, envFails) ==
    IF StepFails(db, HistoryTable, envFails) THEN Hs
    ELSE Append(Hs, [player_id |-> id, bet |-> bet, winnings |-> winnings,
                     balance |-> newBalance])

\* what a step prints on the error stream
Diagnostic(failed, message) == IF failed THEN <<message>> ELSE <<>>

----------------------------------------------------------------------------
(* play(): lines 148-188 *)

\* the test of line 159 dropped: every login inserts a row
NeedsAddAlways(id) == TRUE

\* line 159
NeedsAdd(id) == id = NotFound

\* lines 158-163
ResolvePlayer(P, db, who, envFails1, envFailsAdd, envFails2) ==
    LET first == getPlayerID(P, db, who.name, who.age, who.card, envFails1)
    IN  IF NeedsAdd(first)
        THEN LET added == addPlayer(P, db, who.name, who.age, who.card, envFailsAdd)
             IN  [players  |-> added,
                  playerId |-> getPlayerID(added, db, who.name, who.age, who.card, envFails2),
                  diag     |-> Diagnostic(StepFails(db, PlayersTable, envFailsAdd), ErrAdd),
                  added    |-> TRUE]
        ELSE [players |-> P, playerId |-> first, diag |-> <<>>, added |-> FALSE]

\* line 181
Winnings == Zero

\* line 182 with the sign of the bet reversed
SettleAddsBet(bal, winnings, bet) == DoubleAdd(bal, DoubleAdd(winnings, bet))

\* line 182 without the bet
SettleIgnoresBet(bal, winnings, bet) == DoubleAdd(bal, winnings)

\* line 182: balance += winnings - bet
Settle(bal, winnings, bet) == DoubleAdd(bal, DoubleSub(winnings, bet))

\* the number of TRUE values among the failure inputs of a step
Count(flags) == Cardinality({k \in 1..Len(flags) : flags[k]})

\* An environment failure is an input only of a step that runs and whose table
\* exists (a missing table already fails the step).
MayFail(flag, runs, db, table) == flag => (runs /\ table \in db)

----------------------------------------------------------------------------
(* The process: main(), the constructor and the steps of play() *)

\* vector<vector<char>> result(3, vector<char>(3)): every cell is '\0'
NUL == "NUL"

EmptyGrid == [i \in 1..GridSize |-> [j \in 1..GridSize |-> NUL]]

Init ==
    /\ tables = {}
    /\ players = <<>>
    /\ history = <<>>
    /\ pc = "start"
    /\ exitCode = 0
    /\ ident = NoIdentity
    /\ playerId = NotFound
    /\ balance = Zero
    /\ bets = <<>>
    /\ reported = ""
    /\ diag = <<>>
    /\ prompts = 0
    /\ funds = 0
    /\ launches = 1
    /\ spins = 0
    /\ faults = 0
    /\ createFailed = FALSE
    /\ lookupFailed = FALSE
    /\ resolved = [who \in Identities |-> NotFound]
    /\ playersAtStart = 0
    /\ result = EmptyGrid
    /\ cell = 0
    /\ it = 0

\* the constructor without its exit(1): a failed open is only reported
ConstructNoExit ==
    /\ pc = "start"
    /\ \E openFails, envFails1, envFails2 \in BOOLEAN :
        /\ faults + Count(<<openFails, envFails1, envFails2>>) <= MaxFaults
        /\ faults' = faults + Count(<<openFails, envFails1, envFails2>>)
        /\ pc' = "identify"
        /\ exitCode' = exitCode
        /\ diag' = Diagnostic(openFails, ErrOpen)
                   \o Diagnostic(envFails1, ErrQuery) \o Diagnostic(envFails2, ErrQuery)
        /\ tables' = createTables(tables, envFails1, envFails2)
    /\ UNCHANGED <<players, history, ident, playerId, balance, bets, reported,
                   prompts, funds, playersAtStart, launches, spins,
                   createFailed, lookupFailed, resolved, reelVars>>

\* lines 136-142 and 192: the constructor.  A failed sqlite3_open prints a
\* diagnostic and exits with status 1; otherwise createTables runs and
\* main goes on to play().
Construct ==
    /\ pc = "start"
    /\ \E openFails, envFails1, envFails2 \in BOOLEAN :
        /\ faults + Count(<<openFails, envFails1, envFails2>>) <= MaxFaults
        /\ openFails => ~envFails1 /\ ~envFails2
        /\ faults' = faults + Count(<<openFails, envFails1, envFails2>>)
        /\ IF openFails
           THEN /\ pc' = "exited"
                /\ exitCode' = 1
                /\ diag' = <<ErrOpen>>
                /\ tables' = tables
           ELSE /\ pc' = "identify"
                /\ exitCode' = exitCode
                /\ diag' = Diagnostic(envFails1, ErrQuery) \o Diagnostic(envFails2, ErrQuery)
                /\ tables' = createTables(tables, envFails1, envFails2)
    /\ UNCHANGED <<players, history, ident, playerId, balance, bets, reported,
                   prompts, funds, playersAtStart, launches, spins,
                   createFailed, lookupFailed, resolved, reelVars>>

\* lines 149-163: the three prompts and reads, then the resolution of the
\* player id
Identify ==
    /\ pc = "identify"
    /\ \E who \in Identities, envFails1, envFailsAdd, envFails2 \in BOOLEAN :
        LET first == getPlayerID(players, tables, who.name, who.age, who.card, envFails1)
            r     == ResolvePlayer(players, tables, who, envFails1, envFailsAdd, envFails2)
            n     == Count(<<envFails1, envFailsAdd, envFails2>>)
        IN  /\ MayFail(envFails1, TRUE, tables, PlayersTable)
            /\ MayFail(envFailsAdd, r.added, tables, PlayersTable)
            /\ MayFail(envFails2, r.added, tables, PlayersTable)
            /\ faults + n <= MaxFaults
            /\ faults' = faults + n
            /\ ident' = who
            /\ players' = r.players
            /\ playerId' = r.playerId
            /\ diag' = r.diag
            /\ createFailed' = (createFailed \/ r.diag # <<>>)
            /\ lookupFailed' = (lookupFailed
                                  \/ StepFails(tables, PlayersTable, envFails1)
                                  \/ (r.added /\ StepFails(tables, PlayersTable, envFails2)))
            /\ resolved' = IF resolved[who] = NotFound
                           THEN [resolved EXCEPT ![who] = r.playerId]
                           ELSE resolved
    /\ prompts' = prompts + 3
    /\ pc' = "fund"
    /\ UNCHANGED <<tables, history, exitCode, balance, bets, reported, funds,
                   playersAtStart, launches, spins, reelVars>>

\* lines 165-166
Fund ==
    /\ pc = "fund"
    /\ \E envFails \in BOOLEAN :
        /\ MayFail(envFails, TRUE, tables, PlayersTable)
        /\ faults + Count(<<envFails>>) <= MaxFaults
        /\ faults' = faults + Count(<<envFails>>)
        /\ balance' = Amt(0, StartBalance)
        /\ players' = updateBalance(players, tables, playerId, balance', envFails)
        /\ diag' = Diagnostic(StepFails(tables, PlayersTable, envFails), ErrUpdate)
    /\ funds' = funds + 1
    /\ pc' = "loop"
    /\ UNCHANGED <<tables, history, exitCode, ident, playerId, bets, reported,
                   prompts, playersAtStart, launches, spins, createFailed,
                   lookupFailed, resolved, reelVars>>

\* a spin that gives up when updateBalance fails: the balance is put back,
\* nothing is saved or printed and the process exits with status 1
SpinStopsOnError ==
    /\ pc = "loop"
    /\ spins < MaxSpins
    /\ spins' = spins + 1
    /\ \E bet \in Bets, envFailsUpdate, envFailsSave \in BOOLEAN :
        LET n == Count(<<envFailsUpdate, envFailsSave>>)
            updateFailed == StepFails(tables, PlayersTable, envFailsUpdate)
            settled == Settle(balance, Winnings, bet)
        IN  /\ balance.hi + Winnings.hi - bet.hi \in -1..1
            /\ MayFail(envFailsUpdate, TRUE, tables, PlayersTable)
            /\ MayFail(envFailsSave, ~updateFailed, tables, HistoryTable)
            /\ faults + n <= MaxFaults
            /\ faults' = faults + n
            /\ bets' = Append(bets, bet)
            /\ players' = updateBalance(players, tables, playerId, settled, envFailsUpdate)
            /\ IF updateFailed
               THEN /\ balance' = balance
                    /\ history' = history
                    /\ diag' = <<ErrUpdate>>
                    /\ reported' = reported
                    /\ pc' = "exited"
                    /\ exitCode' = 1
               ELSE /\ balance' = settled
                    /\ history' = saveSpinHistory(history, tables, playerId, bet,
                                                  Winnings, settled, envFailsSave)
                    /\ diag' = Diagnostic(StepFails(tables, HistoryTable, envFailsSave),
                                          ErrSave)
                    /\ reported' = FormatDouble(settled)
                    /\ pc' = "loop"
                    /\ exitCode' = exitCode
    /\ prompts' = prompts + 2
    /\ UNCHANGED <<tables, ident, playerId, funds, playersAtStart,
                   launches, createFailed, lookupFailed, resolved, reelVars>>

\* lines 169-186 with a command other than 'q': one spin.  The grid of
\* getSpinResult is printed and dropped; it is modelled by ReelStep below.
\* Bets are taken while the new balance stays below 2^57 in magnitude, the
\* range DoubleRound covers.
Spin ==
    /\ pc = "loop"
    /\ spins < MaxSpins
    /\ spins' = spins + 1
    /\ \E bet \in Bets, envFailsUpdate, envFailsSave \in BOOLEAN :
        LET n == Count(<<envFailsUpdate, envFailsSave>>)
        IN  /\ balance.hi + Winnings.hi - bet.hi \in -1..1
            /\ MayFail(envFailsUpdate, TRUE, tables, PlayersTable)
            /\ MayFail(envFailsSave, TRUE, tables, HistoryTable)
            /\ faults + n <= MaxFaults
            /\ faults' = faults + n
            /\ bets' = Append(bets, bet)
            /\ balance' = Settle(balance, Winnings, bet)
            /\ players' = updateBalance(players, tables, playerId, balance', envFailsUpdate)
            /\ history' = saveSpinHistory(history, tables, playerId, bet, Winnings,
                                          balance', envFailsSave)
            /\ diag' = Diagnostic(StepFails(tables, PlayersTable, envFailsUpdate), ErrUpdate)
                       \o Diagnostic(StepFails(tables, HistoryTable, envFailsSave), ErrSave)
            /\ reported' = FormatDouble(balance')
    /\ prompts' = prompts + 2
    /\ pc' = "loop"
    /\ UNCHANGED <<tables, exitCode, ident, playerId, funds, playersAtStart,
                   launches, createFailed, lookupFailed, resolved, reelVars>>

\* lines 169-172, 144-146 and 194: command 'q' leaves the loop, the
\* destructor closes the store and main returns 0
Quit ==
    /\ pc = "loop"
    /\ pc' = "exited"
    /\ exitCode' = 0
    /\ prompts' = prompts + 1
    /\ diag' = <<>>
    /\ UNCHANGED <<storeVars, ident, playerId, balance, bets, reported, funds,
                   playersAtStart, ghostVars, reelVars>>

\* the program is started again on the same database file
Relaunch ==
    /\ pc = "exited"
    /\ launches < MaxSessions
    /\ launches' = launches + 1
    /\ pc' = "start"
    /\ exitCode' = 0
    /\ ident' = NoIdentity
    /\ playerId' = NotFound
    /\ balance' = Zero
    /\ bets' = <<>>
    /\ reported' = ""
    /\ diag' = <<>>
    /\ prompts' = 0
    /\ funds' = 0
    /\ playersAtStart' = Len(players)
    /\ UNCHANGED <<storeVars, spins, faults, createFailed, lookupFailed, resolved,
                   reelVars>>

Next == Construct \/ Identify \/ Fund \/ Spin \/ Quit \/ Relaunch

Spec == Init /\ [][Next]_vars

----------------------------------------------------------------------------
(* getSpinResult: lines 109-124 *)

\* line 113: uniform_int_distribution<> dist(0, symbols.size() - 1)
DistMin == 0

\* the distribution taken over 0..size() instead of 0..size() - 1
DistMaxOffByOne == Len(SymbolKeys)

DistMax == Len(SymbolKeys) - 1

\* line 118: std::advance(it, n) from position pos; position 0 is
\* symbols.begin() and position Len(SymbolKeys) is symbols.end()
Advance(pos, n) == pos + n

\* line 119: it->first.  Reading through the end iterator is undefined: any
\* character may come back.
Deref(pos) ==
    IF pos < Len(SymbolKeys) THEN {SymbolKeys[pos + 1]} ELSE {NUL, "?"}

\* lines 116-121: one iteration of the inner loop, on cell number `cell` in
\* row-major order; the iterator is back at symbols.begin() between cells
ReelStep ==
    /\ cell < GridSize * GridSize
    /\ \E n \in DistMin..DistMax :
        /\ it' = Advance(0, n)
        /\ \E c \in Deref(it') :
            result' = [result EXCEPT ![(cell \div GridSize) + 1][(cell % GridSize) + 1] = c]
    /\ cell' = cell + 1
    /\ UNCHANGED <<storeVars, procVars, ghostVars>>

SpecReel == Init /\ [][ReelStep]_vars

----------------------------------------------------------------------------
(* Vocabulary of the properties *)

InSeq(x, seq) == \E k \in 1..Len(seq) : seq[k] = x

Last(seq) == seq[Len(seq)]

HasPlayer(id) == \E k \in 1..Len(players) : players[k].id = id

PersistedBalance(id) ==
    players[CHOOSE k \in 1..Len(players) : players[k].id = id].balance

\* the entered triple had a row when this process started
StoredAtStart(who) ==
    Matches(SubSeq(players, 1, playersAtStart), who.name, who.age, who.card) # {}

NoDuplicateTriples ==
    \A k, m \in 1..Len(players) :
        (/\ players[k].name = players[m].name
         /\ players[k].age = players[m].age
         /\ players[k].card = players[m].card) => k = m

RECURSIVE SumHi(_)
SumHi(seq) == IF seq = <<>> THEN 0 ELSE Head(seq).hi + SumHi(Tail(seq))

RECURSIVE SumLo(_)
SumLo(seq) == IF seq = <<>> THEN 0 ELSE Head(seq).lo + SumLo(Tail(seq))

\* 100 - (b1 + ... + bN) in exact arithmetic
ExactBalance(seq) == Amt(-SumHi(seq), 100 - SumLo(seq))

\* 100 after N successive subtractions, each rounded to the nearest double
RECURSIVE RoundedBalance(_)
RoundedBalance(seq) ==
    IF seq = <<>> THEN Amt(0, 100)
    ELSE LET before == RoundedBalance(SubSeq(seq, 1, Len(seq) - 1))
         IN  DoubleRound(before.hi - Last(seq).hi, before.lo - Last(seq).lo)

\* every amount of the sequence is an integer below 2^53 in magnitude
AllSmall(seq) == \A k \in 1..Len(seq) : seq[k].hi = 0

Positive(a) == DoubleLess(Zero, a)

Negative(a) == DoubleLess(a, Zero)

\* the step is one spin of play()
SpinStep == spins' # spins

----------------------------------------------------------------------------
(* C1 *)

\* C1, as stated: in the loop of play() the in-memory balance is
\* 100 - (b1 + ... + bN) for the bets b1..bN read so far.
C1_Original ==
    pc = "loop" => balance = ExactBalance(bets)

\* C1, amended: each spin sets the balance to the double nearest to
\* balance_before - bet, so after N spins the balance is 100 after N
\* successive rounded subtractions; it equals 100 - (b1 + ... + bN) when every
\* bet is an integer small enough for the subtractions to be exact; and when
\* the last updateBalance succeeded the row of the session's player holds the
\* in-memory balance.
C1_BalanceAfterSpins ==
    pc = "loop" =>
        /\ balance = RoundedBalance(bets)
        /\ AllSmall(bets) => balance = ExactBalance(bets)
        /\ (~InSeq(ErrUpdate, diag) /\ HasPlayer(playerId))
              => PersistedBalance(playerId) = balance

\* Two spins, the first of which needed rounding: 100 - 2^56 + 2^56 is 96, and
\* the player's row holds it.
C1_Witness ==
    /\ pc = "loop"
    /\ bets = <<Amt(1, 0), Amt(-1, 0)>>
    /\ balance = Amt(0, 96)
    /\ ~InSeq(ErrUpdate, diag)
    /\ HasPlayer(playerId)
    /\ PersistedBalance(playerId) = balance

----------------------------------------------------------------------------
(* C9 *)

\* C9, as stated: every spin leaves the balance strictly below what it was.
C9_Original ==
    [][SpinStep => DoubleLess(balance', balance)]_vars

\* C9, amended: every spin sets the balance to the double nearest to
\* balance_before - bet.  With a positive bet the balance does not increase,
\* and it strictly decreases when balance and bet are integers below 2^53;
\* with a zero bet it is unchanged; with a negative bet it does not decrease.
C9_SpinChangesBalanceByBet ==
    [][SpinStep =>
        LET bet == Last(bets')
        IN  /\ balance' = DoubleRound(balance.hi - bet.hi, balance.lo - bet.lo)
            /\ Positive(bet) => ~DoubleLess(balance, balance')
            /\ (Positive(bet) /\ balance.hi = 0 /\ bet.hi = 0)
                  => DoubleLess(balance', balance)
            /\ bet = Zero => balance' = balance
            /\ Negative(bet) => ~DoubleLess(balance', balance)]_vars

\* A spin with the positive bet 5 that left the balance 2^56 + 96 as it was.
C9_Witness ==
    /\ pc = "loop"
    /\ bets = <<Amt(-1, 0), Amt(0, 5)>>
    /\ balance = Amt(1, 96)
    /\ reported = "7.20576e+16"

----------------------------------------------------------------------------
(* C10 *)

\* C10, as stated: in every reachable state of the store every spin_history
\* row's player_id is the id of an existing player row, never -1.
C10_Original ==
    \A k \in 1..Len(history) :
        history[k].player_id # NotFound /\ HasPlayer(history[k].player_id)

----------------------------------------------------------------------------
(* C2 *)

\* the row a spin hands to saveSpinHistory, read off the step: the session's
\* player id, the bet just read, winnings 0 and the balance just printed
SpinRow == [player_id |-> playerId, bet |-> Last(bets'), winnings |-> Zero,
            balance |-> balance']

\* C2, as stated: every spin appends exactly one spin_history row, holding
\* the session's player id, the bet, winnings 0 and the printed balance, and
\* no other row changes.
C2_Original ==
    [][SpinStep =>
        /\ history' = Append(history, SpinRow)
        /\ FormatDouble(Last(history').balance) = reported']_vars

\* C2, amended: a spin whose saveSpinHistory succeeds appends exactly one
\* row, holding the session's player id, the bet, winnings 0 and the balance
\* printed for that spin; a spin whose saveSpinHistory fails appends none; no
\* other step changes spin_history, so no row is ever modified or removed and
\* the rows written never outnumber the spins.
C2_SpinAppendsOneRow ==
    [][/\ (SpinStep /\ ~InSeq(ErrSave, diag')) =>
            /\ history' = Append(history, SpinRow)
            /\ FormatDouble(Last(history').balance) = reported'
       /\ (SpinStep /\ InSeq(ErrSave, diag')) => history' = history
       /\ ~SpinStep => history' = history
       /\ Len(history') <= spins']_vars

\* Two spins of one session, the first not saved, the second saved with the
\* printed balance.
C2_Witness ==
    /\ pc = "loop"
    /\ Len(bets) = 2
    /\ Len(history) = 1
    /\ ~InSeq(ErrSave, diag)
    /\ history[1] = [player_id |-> playerId, bet |-> bets[2], winnings |-> Zero,
                     balance |-> balance]
    /\ FormatDouble(history[1].balance) = reported

----------------------------------------------------------------------------
(* C3 *)

\* what C3 says of a store, under the premise given
C3_Body ==
    /\ NoDuplicateTriples
    /\ (pc \in {"fund", "loop"} /\ StoredAtStart(ident)) =>
            /\ Len(players) = playersAtStart
            /\ resolved[ident] # NotFound => playerId = resolved[ident]

----------------------------------------------------------------------------
(* C4 *)

\* C4, as stated: after the resolution of a triple that had no row, playerId
\* is the id of a row inserted by this process that holds the entered triple,
\* never -1.
C4_Original ==
    (pc \in {"fund", "loop"} /\ ~StoredAtStart(ident)) =>
        /\ playerId # NotFound
        /\ playerId > playersAtStart
        /\ \E k \in 1..Len(players) :
              /\ players[k].id = playerId
              /\ players[k].name = ident.name
              /\ players[k].age = ident.age
              /\ players[k].card = ident.card

----------------------------------------------------------------------------
(* C5 *)

\* C5, as stated: when the first command is about to be read the balance of
\* the resolved player is 100 in memory and in the store.
C5_Original ==
    (pc = "loop" /\ bets = <<>> /\ HasPlayer(playerId)) =>
        /\ balance = Amt(0, 100)
        /\ PersistedBalance(playerId) = Amt(0, 100)

\* C5, amended: when the first command is about to be read the in-memory
\* balance is 100, and the stored balance of the resolved player is 100 if
\* the updateBalance of the Fund step succeeded (otherwise the store keeps
\* what it had); no spin comes before the Fund step, which runs exactly once
\* per session.
C5_FundResetsBalance ==
    /\ (pc = "loop" /\ bets = <<>>) =>
          /\ balance = Amt(0, 100)
          /\ (HasPlayer(playerId) /\ ~InSeq(ErrUpdate, diag))
                => PersistedBalance(playerId) = Amt(0, 100)
    /\ pc \in {"start", "identify", "fund"} => (funds = 0 /\ bets = <<>>)
    /\ pc = "loop" => funds = 1
    /\ funds <= 1

\* The second session of a player whose first session left another balance
\* in the store: the row is back at 100.
C5_Witness ==
    /\ launches = 2
    /\ pc = "loop"
    /\ bets = <<>>
    /\ faults = 0
    /\ StoredAtStart(ident)
    /\ \E k \in 1..Len(history) :
          /\ history[k].player_id = playerId
          /\ history[k].balance # Amt(0, 100)
    /\ PersistedBalance(playerId) = Amt(0, 100)
    /\ balance = Amt(0, 100)

----------------------------------------------------------------------------
(* C6, checked under SpecReel *)

Glyphs == {"A", "B", "C", "D"}

CellAt(grid, n) == grid[(n \div 3) + 1][(n % 3) + 1]

\* C6: getSpinResult's grid has 3 rows of 3 cells; every cell assigned so far,
\* and so each of the 9 cells of the grid returned, holds A, B, C or D; the
\* iterator is read at a position in 0..3, never at or past the end; and each
\* of the four symbols can be drawn for the next cell.
C6_GridOfSymbols ==
    /\ DOMAIN result = 1..3
    /\ \A i \in 1..3 : DOMAIN result[i] = 1..3
    /\ cell \in 0..9
    /\ it \in 0..3
    /\ \A n \in 0..8 : n < cell => CellAt(result, n) \in Glyphs
    /\ cell < 9 =>
          \A g \in Glyphs : ENABLED (ReelStep /\ CellAt(result', cell) = g)

\* A returned grid that shows all four symbols, D in its last cell.
C6_Witness ==
    /\ cell = 9
    /\ result = << <<"A", "B", "C">>, <<"D", "A", "B">>, <<"C", "A", "D">> >>

----------------------------------------------------------------------------
(* C7 *)

\* C7: a failed open ends the process at once with exit status 1: the step
\* that prints the open diagnostic starts from the constructor, prints nothing
\* else (createTables is not run), and changes no table, player row or history
\* row; in the state it leaves no prompt has been printed, no identity read,
\* no Fund step run and no bet read.
C7_OpenFailureExits ==
    /\ [](InSeq(ErrOpen, diag) =>
            /\ pc = "exited"
            /\ exitCode = 1
            /\ prompts = 0
            /\ ident = NoIdentity
            /\ funds = 0
            /\ bets = <<>>)
    /\ [][InSeq(ErrOpen, diag') =>
            /\ pc = "start"
            /\ diag' = <<ErrOpen>>
            /\ storeVars' = storeVars]_vars

\* The open fails on a store that an earlier session filled.
C7_Witness ==
    /\ InSeq(ErrOpen, diag)
    /\ pc = "exited"
    /\ exitCode = 1
    /\ launches = 2
    /\ Len(players) = 1
    /\ Len(history) = 1

----------------------------------------------------------------------------
(* C8 *)

\* C8: after the store is open every step goes on to the step that follows
\* it whether or not its persistence operations fail, a failed operation
\* leaves its table as it was, nothing is rolled back, and a spin still
\* subtracts the bet from the in-memory balance and prints the result.
C8_FailuresAreIgnored ==
    [][/\ (pc = "start" /\ ~InSeq(ErrOpen, diag')) =>
            /\ pc' = "identify"
            /\ tables \subseteq tables'
            /\ Len(diag') = 2 => tables' = tables
       /\ pc = "identify" =>
            /\ pc' = "fund"
            /\ InSeq(ErrAdd, diag') => players' = players
       /\ pc = "fund" =>
            /\ pc' = "loop"
            /\ balance' = Amt(0, 100)
            /\ InSeq(ErrUpdate, diag') => players' = players
       /\ SpinStep =>
            /\ pc' = "loop"
            /\ balance' = DoubleRound(balance.hi - Last(bets').hi,
                                      balance.lo - Last(bets').lo)
            /\ reported' = FormatDouble(balance')
            /\ InSeq(ErrUpdate, diag') => players' = players
            /\ InSeq(ErrSave, diag') => history' = history
            /\ Len(history') >= Len(history)]_vars

\* A spin whose updateBalance failed: -50 is printed and saved in the history
\* row while the player's row still holds 100.
C8_Witness ==
    /\ pc = "loop"
    /\ bets = <<Amt(0, 150)>>
    /\ InSeq(ErrUpdate, diag)
    /\ HasPlayer(playerId)
    /\ balance = Amt(0, -50)
    /\ reported = "-50"
    /\ PersistedBalance(playerId) = Amt(0, 100)
    /\ Len(history) = 1
    /\ history[1].balance = balance

====
